---- MODULE Spec2Model ----
(***************************************************************************)
(* Model of src/app.py: a Streamlit page that validates a clinical form,   *)
(* appends one row per submission to a Google Sheet, and displays the      *)
(* sheet through a 5-minute read cache.                                    *)
(*                                                                         *)
(* One browser session runs the script (main) top to bottom after each     *)
(* user interaction; pc is the position of the running script.  The sheet  *)
(* is shared with other clients, which may append rows at any time.        *)
(***************************************************************************)
EXTENDS Integers, Sequences, FiniteSets, TLC

VARIABLES
    store,        \* the worksheet: a sequence of rows, each a sequence of cell texts
    clock,        \* wall clock, in seconds
    connCache,    \* st.cache_resource entry of connect_to_gsheet
    dataCache,    \* st.cache_data entry of get_sheet_data
    session,      \* st.session_state
    form,         \* the widget values shown in the browser
    formRendered, \* whether the last script run rendered the form and the dataset section
    pc,           \* position of the script run: connect, form, append, verify, display,
                  \* done (the run has ended), idle (waiting for the user)
    trigger,      \* what started the run: load, submit, refresh, rerun
    vals,         \* the widget values the run reads (the submitted values)
    attempt,      \* loop variable of connect_to_gsheet
    waits,        \* the time.sleep calls of connect_to_gsheet in this run
    sheet,        \* main's local: TRUE for a worksheet, FALSE for None
    data,         \* main's local: the encoded row
    errors,       \* main's local: validation_errors
    outcome,      \* what the last interaction reported: none, rejected, saved, failed, noconn
    added,        \* rows this interaction put into the store
    io,           \* the store calls of this script run and how each ended
    records       \* the dataset the last run loaded and displayed

vars == << store, clock, connCache, dataCache, session, form, formRendered, pc,
           trigger, vals, attempt, waits, sheet, data, errors, outcome, added,
           io, records >>

----------------------------------------------------------------------------
(* Bounds of the model *)

MaxRows == 3          \* rows the worksheet may hold, header included
MaxClock == 300       \* Tick steps are taken while the clock is below this

(* Program constants *)

max_retries == 3      \* connect_to_gsheet
CONN_TTL == 3600      \* @st.cache_resource(ttl=3600)
DATA_TTL == 300       \* @st.cache_data(ttl=300)
MIN_AGE == 0          \* number_input min_value, validate_form_data
MAX_AGE == 120        \* number_input max_value, validate_form_data
SUCCESS_SLEEP == 2    \* time.sleep(2) before st.rerun()

----------------------------------------------------------------------------
(* Values *)

Last(s) == s[Len(s)]

NoneRow == << >>

\* The header row of the worksheet.  The program never writes it; the dataset
\* section reads the columns Age, Species, Rectal_CPE_Pos, Setting and CR by
\* name, the other names follow the order of `data`.
Header ==
    << "Age", "Gender", "Species", "Rectal_CPE_Pos", "Setting", "Acquisition",
       "BSI_Source", "CHF", "CKD", "Tumor", "Diabetes", "Immunosuppressed",
       "CR", "BLBLI_R", "FQR", "ThreeGC_R", "Timestamp" >>

\* Positions of `data` that hold Python ints.
NumericCols == {1, 4} \cup (8..16)

\* The widgets' initial values: number_input value=30, selectbox index 0, radio index 0.
DefaultForm ==
    [ age |-> 30, gender |-> "", species |-> "", setting |-> "",
      acquisition |-> "", bsi_source |-> "", rectal_cpe_pos |-> "No",
      immunosuppressed |-> "No", chf |-> "No", ckd |-> "No", tumor |-> "No",
      diabetes |-> "No", cr |-> "No", blbli_r |-> "No", fqr |-> "No",
      three_gc_r |-> "No" ]

\* A fully filled form: the end-to-end scenario of the specification.
FilledForm ==
    [ DefaultForm EXCEPT !.age = 45, !.gender = "Female",
                         !.species = "Escherichia coli", !.setting = "ICU",
                         !.acquisition = "Hospital", !.bsi_source = "Primary",
                         !.cr = "Yes" ]

\* Radio answers the user may give: three patterns in which every radio takes
\* both answers.
RadioPatterns ==
    { FilledForm,
      [ FilledForm EXCEPT !.cr = "No", !.rectal_cpe_pos = "Yes", !.ckd = "Yes",
                          !.diabetes = "Yes", !.blbli_r = "Yes", !.three_gc_r = "Yes" ],
      [ FilledForm EXCEPT !.chf = "Yes", !.tumor = "Yes", !.immunosuppressed = "Yes",
                          !.fqr = "Yes" ] }

\* What the user may enter before pressing submit: nothing, a valid form, and
\* the valid form with gender left unselected.
FormInputs ==
    { DefaultForm, FilledForm, [ FilledForm EXCEPT !.gender = "" ] }

ApiOutcomes == {"ok", "api", "other"}
ConnectOutcomes == {"ok", "notfound", "api", "other"}
Delays == {DATA_TTL, CONN_TTL}

NoIO == [ connect |-> << >>, append |-> << >>, values |-> << >>, fetch |-> << >> ]
NoCache == [ has |-> FALSE, at |-> 0, value |-> << >> ]
NoConn == [ has |-> FALSE, at |-> 0, value |-> FALSE ]
NewSession == [ submitted |-> FALSE, last_submission_time |-> -1 ]

----------------------------------------------------------------------------
(* Pure functions of the program *)

Pad2(n) == IF n < 10 THEN "0" \o ToString(n) ELSE ToString(n)

\* datetime.now().strftime("%Y-%m-%d %H:%M:%S"), the clock counted from
\* 2026-01-01 00:00:00.
Strftime(t) ==
    "2026-01-" \o Pad2(1 + t \div 86400) \o " " \o Pad2((t % 86400) \div 3600)
        \o ":" \o Pad2((t % 3600) \div 60) \o ":" \o Pad2(t % 60)

\* str(x) of a Python int.
Str(n) == ToString(n)

\* A validator whose upper age limit is off by one and which forgets the species.
validate_form_data_lax(age, gender, species, setting, acquisition, bsi_source) ==
    (IF age < MIN_AGE \/ age > MAX_AGE + 1 THEN << "Age must be between 0 and 120" >> ELSE << >>)
    \o (IF gender = "" THEN << "Gender is required" >> ELSE << >>)
    \o (IF setting = "" THEN << "Clinical setting is required" >> ELSE << >>)
    \o (IF acquisition = "" THEN << "Acquisition type is required" >> ELSE << >>)
    \o (IF bsi_source = "" THEN << "BSI source is required" >> ELSE << >>)

validate_form_data(age, gender, species, setting, acquisition, bsi_source) ==
    (IF age < MIN_AGE \/ age > MAX_AGE THEN << "Age must be between 0 and 120" >> ELSE << >>)
    \o (IF gender = "" THEN << "Gender is required" >> ELSE << >>)
    \o (IF species = "" THEN << "Species is required" >> ELSE << >>)
    \o (IF setting = "" THEN << "Clinical setting is required" >> ELSE << >>)
    \o (IF acquisition = "" THEN << "Acquisition type is required" >> ELSE << >>)
    \o (IF bsi_source = "" THEN << "BSI source is required" >> ELSE << >>)

YesNo(answer) == IF answer = "Yes" THEN 1 ELSE 0

\* An encoder that lists immunosuppressed where the form collects it, ahead of
\* the comorbidities.
EncodeRowFormOrder(v, now) ==
    << v.age, v.gender, v.species, YesNo(v.rectal_cpe_pos), v.setting,
       v.acquisition, v.bsi_source, YesNo(v.immunosuppressed), YesNo(v.chf),
       YesNo(v.ckd), YesNo(v.tumor), YesNo(v.diabetes), YesNo(v.cr),
       YesNo(v.blbli_r), YesNo(v.fqr), YesNo(v.three_gc_r), Strftime(now) >>

\* The list `data` main builds from the widget values and the current time.
EncodeRow(v, now) ==
    << v.age, v.gender, v.species, YesNo(v.rectal_cpe_pos), v.setting,
       v.acquisition, v.bsi_source, YesNo(v.chf), YesNo(v.ckd), YesNo(v.tumor),
       YesNo(v.diabetes), YesNo(v.immunosuppressed), YesNo(v.cr),
       YesNo(v.blbli_r), YesNo(v.fqr), YesNo(v.three_gc_r), Strftime(now) >>

\* sheet.append_row(data, value_input_option='USER_ENTERED'): the cell texts of
\* the new row.
SheetRow(d) == [ i \in 1..Len(d) |-> IF i \in NumericCols THEN Str(d[i]) ELSE d[i] ]

\* Rows other sessions of this page append: the same age as FilledForm, and
\* another age.  Their timestamps are not followed: all carry the first second.
ForeignRows ==
    { SheetRow(EncodeRow([ FilledForm EXCEPT !.age = a, !.gender = "Male" ], 0)) :
        a \in {45, 99} }

\* A check that looks for the age in any row instead of the last one.
VerifyAnyRow(all_data, d) ==
    \E i \in 1..Len(all_data) : Str(d[1]) = all_data[i][1]

\* The check append_to_sheet makes on sheet.get_all_values().
VerifyLastRow(all_data, d) ==
    IF all_data # << >> /\ Len(all_data) > 1
    THEN Str(d[1]) = Last(all_data)[1]
    ELSE FALSE

\* gspread's numericise: a cell text that is a number is returned as that number.
\* The texts of the numbers a cell of this sheet may hold.
NumberTexts == { << ToString(n), n >> : n \in MIN_AGE..MAX_AGE }

Numericise(s) ==
    IF \E p \in NumberTexts : p[1] = s
    THEN (CHOOSE p \in NumberTexts : p[1] = s)[2]
    ELSE s

\* sheet.get_all_records(): one dict per row after the header row, keyed by the
\* header row.
get_all_records(rows) ==
    IF Len(rows) < 2 THEN << >>
    ELSE [ i \in 1..(Len(rows) - 1) |->
             [ k \in { rows[1][j] : j \in 1..Len(rows[1]) } |->
                 Numericise(rows[i + 1][CHOOSE j \in 1..Len(rows[1]) : rows[1][j] = k]) ] ]

wait_time(n) == 2 ^ n

\* A cache without expiry.
FreshForever(entry, now, ttl) == entry.has

\* Whether a cache entry stored at entry.at may still be served.
Fresh(entry, now, ttl) == entry.has /\ now - entry.at < ttl

\* A cache entry as time goes by: once its ttl has elapsed it is gone, so a
\* lookup finds an entry exactly when a fresh one exists.
Expire(entry, empty, now, ttl) == IF Fresh(entry, now, ttl) THEN entry ELSE empty

----------------------------------------------------------------------------
(* The state after construction: the browser opens the page, the first     *)
(* script run is about to start, nothing is cached, the worksheet holds    *)
(* its header row.                                                         *)

Init ==
    /\ store = << Header >>
    /\ clock = 0
    /\ connCache = NoConn
    /\ dataCache = NoCache
    /\ session = NewSession
    /\ form = DefaultForm
    /\ formRendered = FALSE
    /\ pc = "connect"
    /\ trigger = "load"
    /\ vals = DefaultForm
    /\ attempt = 0
    /\ waits = << >>
    /\ sheet = FALSE
    /\ data = NoneRow
    /\ errors = << >>
    /\ outcome = "none"
    /\ added = 0
    /\ io = NoIO
    /\ records = << >>

\* d seconds go by: the clock advances and cache entries past their ttl go.
Advance(d) ==
    /\ clock' = clock + d
    /\ connCache' = Expire(connCache, NoConn, clock + d, CONN_TTL)
    /\ dataCache' = Expire(dataCache, NoCache, clock + d, DATA_TTL)

\* A script run starts from the top of main with fresh locals.
StartRun(why) ==
    /\ pc' = "connect"
    /\ trigger' = why
    /\ attempt' = 0
    /\ waits' = << >>
    /\ sheet' = FALSE
    /\ io' = NoIO

\* st.rerun(): the run in progress stops and a new one starts; what the
\* interaction reported so far stays on record.
Rerun == StartRun("rerun")

\* A run the user starts: a new interaction.
Interaction(why) ==
    /\ StartRun(why)
    /\ data' = NoneRow
    /\ errors' = << >>
    /\ outcome' = "none"
    /\ added' = 0

----------------------------------------------------------------------------
(* The user *)

\* st.form(..., clear_on_submit=True): the run reads the submitted values and
\* the widgets go back to their initial values.
ClearOnSubmit(f) == DefaultForm

\* The user fills the form with f (widgets inside st.form start no script run)
\* and presses submit.
UserSubmit(f) ==
    /\ pc = "idle"
    /\ formRendered
    /\ vals' = f
    /\ form' = ClearOnSubmit(f)
    /\ Interaction("submit")
    /\ UNCHANGED << store, clock, connCache, dataCache, session, formRendered, records >>

\* The "Refresh Data" button.
UserRefresh ==
    /\ pc = "idle"
    /\ formRendered
    /\ vals' = form
    /\ Interaction("refresh")
    /\ UNCHANGED << store, clock, connCache, dataCache, session, form, formRendered,
                    records >>

\* Reloading the page: a new session, the caches are the server's and stay.
UserReload ==
    /\ pc = "idle"
    /\ session' = NewSession
    /\ form' = DefaultForm
    /\ vals' = DefaultForm
    /\ Interaction("load")
    /\ UNCHANGED << store, clock, connCache, dataCache, formRendered, records >>

----------------------------------------------------------------------------
(* connect_to_gsheet and the lines of main that follow it *)

\* main, after sheet = connect_to_gsheet(): a None sheet ends the run before
\* the form.
AfterConnect(s) ==
    /\ sheet' = s
    /\ formRendered' = s
    /\ IF s
       THEN /\ pc' = "form"
            /\ outcome' = outcome
       ELSE /\ pc' = "done"
            /\ outcome' = "noconn"

\* The cached result is returned without running the function; a None result
\* is cached like any other.
ConnectCached ==
    /\ pc = "connect"
    /\ connCache.has
    /\ AfterConnect(connCache.value)
    /\ UNCHANGED << store, clock, connCache, dataCache, session, form, trigger, vals,
                    attempt, waits, data, errors, added, io, records >>

\* A retry loop that retries after every error, not only after an APIError.
ConnectStepRetryAll(o, n) ==
    IF o = "ok"
    THEN [ op |-> "return", value |-> TRUE, wait |-> 0 ]
    ELSE IF n < max_retries - 1
         THEN [ op |-> "retry", value |-> FALSE, wait |-> wait_time(n) ]
         ELSE [ op |-> "return", value |-> FALSE, wait |-> 0 ]

\* What one pass of the retry loop does with the outcome of its attempt:
\* "return" with a result, or "retry" after a wait.
ConnectStep(o, n) ==
    CASE o = "ok"       -> [ op |-> "return", value |-> TRUE,  wait |-> 0 ]
      [] o = "notfound" -> [ op |-> "return", value |-> FALSE, wait |-> 0 ]
      [] o = "api"      -> IF n < max_retries - 1
                           THEN [ op |-> "retry", value |-> FALSE, wait |-> wait_time(n) ]
                           ELSE [ op |-> "return", value |-> FALSE, wait |-> 0 ]
      [] OTHER          -> [ op |-> "return", value |-> FALSE, wait |-> 0 ]

ConnectAttempt(o) ==
    /\ pc = "connect"
    /\ ~connCache.has
    /\ attempt < max_retries
    /\ io' = [ io EXCEPT !.connect = Append(@, o) ]
    /\ LET step == ConnectStep(o, attempt) IN
       IF step.op = "retry"
       THEN /\ waits' = Append(waits, step.wait)
            /\ Advance(step.wait)
            /\ attempt' = attempt + 1
            /\ UNCHANGED << sheet, formRendered, pc, outcome >>
       ELSE /\ connCache' = [ has |-> TRUE, at |-> clock, value |-> step.value ]
            /\ AfterConnect(step.value)
            /\ UNCHANGED << waits, clock, dataCache, attempt >>
    /\ UNCHANGED << store, session, form, trigger, vals, data, errors, added, records >>

----------------------------------------------------------------------------
(* main, the form block: validation and encoding *)

\* A form block that encodes and appends whatever the validator said.
MainFormNoGate ==
    /\ pc = "form"
    /\ IF trigger = "submit"
       THEN /\ errors' = validate_form_data(vals.age, vals.gender, vals.species,
                                            vals.setting, vals.acquisition,
                                            vals.bsi_source)
            /\ data' = EncodeRow(vals, clock)
            /\ pc' = "append"
            /\ outcome' = outcome
       ELSE /\ pc' = "display"
            /\ UNCHANGED << errors, outcome, data >>
    /\ UNCHANGED << store, clock, connCache, dataCache, session, form, formRendered,
                    trigger, vals, attempt, waits, sheet, added, io, records >>

MainForm ==
    /\ pc = "form"
    /\ IF trigger = "submit"
       THEN LET validation_errors ==
                    validate_form_data(vals.age, vals.gender, vals.species,
                                       vals.setting, vals.acquisition, vals.bsi_source)
            IN  /\ errors' = validation_errors
                /\ IF validation_errors # << >>
                   THEN /\ outcome' = "rejected"
                        /\ pc' = "display"
                        /\ data' = data
                   ELSE /\ data' = EncodeRow(vals, clock)
                        /\ pc' = "append"
                        /\ outcome' = outcome
       ELSE /\ pc' = "display"
            /\ UNCHANGED << errors, outcome, data >>
    /\ UNCHANGED << store, clock, connCache, dataCache, session, form, formRendered,
                    trigger, vals, attempt, waits, sheet, added, io, records >>

----------------------------------------------------------------------------
(* append_to_sheet *)

\* An append that retries an APIError up to max_retries times with backoff.
AppendRowRetry(o) ==
    /\ pc = "append"
    /\ io' = [ io EXCEPT !.append = Append(@, o) ]
    /\ IF o = "ok"
       THEN /\ Len(store) < MaxRows
            /\ store' = Append(store, SheetRow(data))
            /\ added' = added + 1
            /\ pc' = "verify"
            /\ UNCHANGED << outcome, clock, connCache, dataCache >>
       ELSE IF o = "api" /\ Len(io.append) < max_retries - 1
            THEN /\ Advance(wait_time(Len(io.append)))
                 /\ UNCHANGED << store, added, pc, outcome >>
            ELSE /\ outcome' = "failed"
                 /\ pc' = "display"
                 /\ UNCHANGED << store, added, clock, connCache, dataCache >>
    /\ UNCHANGED << session, form, formRendered, trigger, vals, attempt, waits, sheet,
                    data, errors, records >>

\* An append that writes the row over the last row of the sheet.
AppendRowOverwrite(o) ==
    /\ pc = "append"
    /\ io' = [ io EXCEPT !.append = Append(@, o) ]
    /\ IF o = "ok"
       THEN /\ store' = [ store EXCEPT ![Len(store)] = SheetRow(data) ]
            /\ added' = added + 1
            /\ pc' = "verify"
            /\ outcome' = outcome
       ELSE /\ outcome' = "failed"
            /\ pc' = "display"
            /\ UNCHANGED << store, added >>
    /\ UNCHANGED << clock, connCache, dataCache, session, form, formRendered, trigger,
                    vals, attempt, waits, sheet, data, errors, records >>

\* sheet.append_row: either the row is appended or the call raises.
AppendRow(o) ==
    /\ pc = "append"
    /\ io' = [ io EXCEPT !.append = Append(@, o) ]
    /\ IF o = "ok"
       THEN /\ Len(store) < MaxRows
            /\ store' = Append(store, SheetRow(data))
            /\ added' = added + 1
            /\ pc' = "verify"
            /\ outcome' = outcome
       ELSE /\ outcome' = "failed"
            /\ pc' = "display"
            /\ UNCHANGED << store, added >>
    /\ UNCHANGED << clock, connCache, dataCache, session, form, formRendered, trigger,
                    vals, attempt, waits, sheet, data, errors, records >>

\* sheet.get_all_values() and the comparison of the last row; then main's
\* two branches on the result.
VerifyAppend(o) ==
    /\ pc = "verify"
    /\ LET saved == o = "ok" /\ VerifyLastRow(store, data) IN
       IF saved
       THEN /\ session' = [ submitted |-> TRUE, last_submission_time |-> clock ]
            /\ outcome' = "saved"
            /\ Advance(SUCCESS_SLEEP)
            /\ Rerun
       ELSE /\ outcome' = "failed"
            /\ pc' = "display"
            /\ io' = [ io EXCEPT !.values = Append(@, o) ]
            /\ UNCHANGED << session, clock, connCache, dataCache, trigger, attempt,
                            waits, sheet >>
    /\ UNCHANGED << store, form, formRendered, vals, data, errors, added, records >>

----------------------------------------------------------------------------
(* main, the dataset section: the refresh button and get_sheet_data *)

\* if st.button("Refresh Data"): st.cache_data.clear(); st.rerun()
RefreshData ==
    /\ pc = "display"
    /\ trigger = "refresh"
    /\ dataCache' = NoCache
    /\ Rerun
    /\ UNCHANGED << store, clock, connCache, session, form, formRendered, vals, data,
                    errors, outcome, added, records >>

\* records = get_sheet_data(sheet), served from the cache.
LoadCached ==
    /\ pc = "display"
    /\ trigger # "refresh"
    /\ dataCache.has
    /\ records' = dataCache.value
    /\ pc' = "done"
    /\ UNCHANGED << store, clock, connCache, dataCache, session, form, formRendered,
                    trigger, vals, attempt, waits, sheet, data, errors, outcome,
                    added, io >>

\* get_sheet_data runs: the records of the sheet, or [] after any error; the
\* result is cached either way.
LoadFetch(o) ==
    /\ pc = "display"
    /\ trigger # "refresh"
    /\ ~dataCache.has
    /\ io' = [ io EXCEPT !.fetch = Append(@, o) ]
    /\ LET result == IF o = "ok" THEN get_all_records(store) ELSE << >> IN
       /\ dataCache' = [ has |-> TRUE, at |-> clock, value |-> result ]
       /\ records' = result
    /\ pc' = "done"
    /\ UNCHANGED << store, clock, connCache, session, form, formRendered, trigger,
                    vals, attempt, waits, sheet, data, errors, outcome, added >>

\* The run is over: main's locals are gone, the page waits for the user.
EndRun ==
    /\ pc = "done"
    /\ pc' = "idle"
    /\ trigger' = "load"
    /\ vals' = DefaultForm
    /\ attempt' = 0
    /\ waits' = << >>
    /\ sheet' = FALSE
    /\ data' = NoneRow
    /\ errors' = << >>
    /\ outcome' = "none"
    /\ added' = 0
    /\ io' = NoIO
    /\ UNCHANGED << store, clock, connCache, dataCache, session, form, formRendered,
                    records >>

----------------------------------------------------------------------------
(* The environment *)

\* Time passes: between two interactions, or while the append call is on its
\* way.  Inside a run the clock otherwise advances by the program's sleeps.
Tick(d) ==
    /\ pc \in {"idle", "append"}
    /\ clock < MaxClock
    /\ Advance(d)
    /\ UNCHANGED << store, session, form, formRendered, pc, trigger, vals, attempt,
                    waits, sheet, data, errors, outcome, added, io, records >>

\* Another session of the page appends its row (its sheet.append_row).
OtherClientAppend(r) ==
    /\ Len(store) < MaxRows
    /\ store' = Append(store, r)
    /\ UNCHANGED << clock, connCache, dataCache, session, form, formRendered, pc,
                    trigger, vals, attempt, waits, sheet, data, errors, outcome,
                    added, io, records >>

Next ==
    \/ \E f \in FormInputs : UserSubmit(f)
    \/ UserRefresh
    \/ UserReload
    \/ ConnectCached
    \/ \E o \in ConnectOutcomes : ConnectAttempt(o)
    \/ MainForm
    \/ \E o \in ApiOutcomes : AppendRow(o)
    \/ \E o \in ApiOutcomes : VerifyAppend(o)
    \/ RefreshData
    \/ LoadCached
    \/ \E o \in ApiOutcomes : LoadFetch(o)
    \/ EndRun
    \/ \E d \in Delays : Tick(d)
    \/ \E r \in ForeignRows : OtherClientAppend(r)

Spec == Init /\ [][Next]_vars

----------------------------------------------------------------------------
(* validate_form_data as a function of its six arguments: Init draws the   *)
(* arguments, ages outside the widget's range included; the one step calls *)
(* the function.                                                           *)

ValidatorInputs ==
    [ age : {MIN_AGE - 1, MIN_AGE, 45, MAX_AGE, MAX_AGE + 1},
      gender : {"", "Female"}, species : {"", "Klebsiella spp."},
      setting : {"", "ICU"}, acquisition : {"", "Community"},
      bsi_source : {"", "Lung"} ]

InitValidate ==
    /\ store = << Header >>
    /\ clock = 0
    /\ connCache = NoConn
    /\ dataCache = NoCache
    /\ session = NewSession
    /\ form = DefaultForm
    /\ formRendered = FALSE
    /\ pc = "validate"
    /\ trigger = "submit"
    /\ \E a \in ValidatorInputs :
         vals = [ DefaultForm EXCEPT !.age = a.age, !.gender = a.gender,
                                     !.species = a.species, !.setting = a.setting,
                                     !.acquisition = a.acquisition,
                                     !.bsi_source = a.bsi_source ]
    /\ attempt = 0
    /\ waits = << >>
    /\ sheet = FALSE
    /\ data = NoneRow
    /\ errors = << >>
    /\ outcome = "none"
    /\ added = 0
    /\ io = NoIO
    /\ records = << >>

ValidateCall ==
    /\ pc = "validate"
    /\ errors' = validate_form_data(vals.age, vals.gender, vals.species, vals.setting,
                                    vals.acquisition, vals.bsi_source)
    /\ pc' = "validated"
    /\ UNCHANGED << store, clock, connCache, dataCache, session, form, formRendered,
                    trigger, vals, attempt, waits, sheet, data, outcome, added, io,
                    records >>

SpecValidate == InitValidate /\ [][ValidateCall]_vars

----------------------------------------------------------------------------
(* One submission of every valid form: Init is the state in which the page *)
(* has loaded once (connection and empty dataset cached at time 0), the    *)
(* user has submitted a valid form and the run has reached the form block. *)

ValidForms ==
    [ age : {MIN_AGE, 45, MAX_AGE}, gender : {"Female"},
      species : {"Escherichia coli"}, setting : {"ICU"},
      acquisition : {"Hospital"}, bsi_source : {"Primary"},
      rectal_cpe_pos : {"No", "Yes"}, immunosuppressed : {"No", "Yes"},
      chf : {"No", "Yes"}, ckd : {"No", "Yes"}, tumor : {"No", "Yes"},
      diabetes : {"No", "Yes"}, cr : {"No", "Yes"}, blbli_r : {"No", "Yes"},
      fqr : {"No", "Yes"}, three_gc_r : {"No", "Yes"} ]

InitSubmitted ==
    /\ store = << Header >>
    /\ clock = 0
    /\ connCache = [ has |-> TRUE, at |-> 0, value |-> TRUE ]
    /\ dataCache = [ has |-> TRUE, at |-> 0, value |-> << >> ]
    /\ session = NewSession
    /\ form = DefaultForm
    /\ formRendered = TRUE
    /\ pc = "form"
    /\ trigger = "submit"
    /\ vals \in ValidForms
    /\ attempt = 0
    /\ waits = << >>
    /\ sheet = TRUE
    /\ data = NoneRow
    /\ errors = << >>
    /\ outcome = "none"
    /\ added = 0
    /\ io = NoIO
    /\ records = << >>

NextEncode ==
    \/ MainForm
    \/ \E d \in Delays : Tick(d)
    \/ \E o \in ApiOutcomes : AppendRow(o)

SpecEncode == InitSubmitted /\ [][NextEncode]_vars

----------------------------------------------------------------------------
(* Properties *)

Range(s) == { s[i] : i \in 1..Len(s) }

\* The script run has passed the form block of main with a connected sheet.
PastForm == sheet /\ pc \in {"display", "done"}

\* The record get_all_records returns for the row encoded in `data`.
RecordOf(d) == get_all_records(<< Header, SheetRow(d) >>)[1]

C1_OneAttempt ==
    /\ Len(io.append) <= 1
    /\ (io.append # << >> /\ io.append[1] # "ok")
          => (outcome = "failed" /\ added = 0 /\ pc \in {"display", "done"})

\* The step that issues the append call does not sleep.
C1_NoWait == Len(io'.append) > Len(io.append) => clock' = clock

C2_OneRowIffReportedSuccess ==
    /\ outcome = "saved" => added = 1
    /\ outcome \in {"failed", "rejected"} => added = 0

\* Rows added by the interaction, by what it reported.
C2_RowCount ==
    /\ outcome = "saved" => added = 1
    /\ outcome = "rejected" => added = 0
    /\ outcome = "failed" =>
          /\ added \in {0, 1}
          /\ added = 1 <=> (io.append = << "ok" >>)

\* A step leaves the rows of the store alone or adds one row at the end.
C2_AppendOnly ==
    \/ store' = store
    \/ /\ Len(store') = Len(store) + 1
       /\ \A i \in 1..Len(store) : store'[i] = store[i]

\* C2 as amended: a submission puts exactly 1 row into the store if it is
\* reported as successful, 0 rows if validation rejects it or the store append
\* call raises, and 1 row when the append call succeeded but the verification
\* that follows made the submission be reported as failed; no step of the
\* program modifies or removes a row of the store.
C2_CreatedOnceNeverChanged == []C2_RowCount /\ [][C2_AppendOnly]_vars

C2_Witness ==
    /\ outcome = "failed"
    /\ added = 1
    /\ io.append = << "ok" >>
    /\ SheetRow(data) \in Range(store)

\* The step of append_to_sheet that reads the sheet back and decides.
C3_VerifyStep ==
    (pc = "verify" /\ pc' # "verify") =>
        LET matches == Len(store) > 1 /\ Last(store)[1] = Str(data[1]) IN
        /\ outcome' \in {"saved", "failed"}
        /\ outcome' = "saved" => matches
        /\ (outcome' = "failed" /\ io'.values = << "ok" >>) => ~matches
        /\ outcome' = "failed" => io'.values # << >>

\* C3: append_to_sheet reports success exactly when the store append raised no
\* error and the read that follows returns more than one row whose last row's
\* first field is the string form of the submitted age; a row of another
\* client with a different first field, appended in between, makes it report
\* failure although the row is in the store.
C3_VerificationDecides ==
    /\ [][C3_VerifyStep]_vars
    /\ []((io.append # << >> /\ io.append[1] # "ok") => outcome = "failed")
    /\ []((pc = "verify" \/ outcome = "saved") => added = 1)

C3_Witness ==
    /\ outcome = "failed"
    /\ io.append = << "ok" >>
    /\ io.values = << "ok" >>
    /\ Len(store) >= 3
    /\ store[Len(store) - 1] = SheetRow(data)
    /\ Last(store)[1] # Str(data[1])

\* C4: on the rerun that follows a submission reported as successful, the
\* dataset the page loads and displays has the submitted row as its last row
\* (no other client wrote after it, the connection and the load did not fail).
C4_RerunShowsSubmittedRow ==
    ( /\ pc = "done"
      /\ trigger = "rerun"
      /\ outcome = "saved"
      /\ sheet
      /\ \A i \in 1..Len(io.fetch) : io.fetch[i] = "ok"
      /\ Last(store) = SheetRow(data) )
    => (records # << >> /\ Last(records) = RecordOf(data))

\* C5: when a validated submission is reported as failed, the form still holds
\* the values the user entered.
C5_FormKeptOnFailure ==
    (PastForm /\ trigger = "submit" /\ outcome = "failed") => form = vals

\* C6: a submission with validation errors issues no append call and adds no
\* row; a submission with only gender unselected has exactly one violation,
\* the one about gender.
C6_ValidationGatesAppend ==
    (PastForm /\ trigger = "submit") =>
        /\ errors # << >> =>
              (io.append = << >> /\ added = 0 /\ outcome = "rejected")
        /\ io.append # << >> => errors = << >>
        /\ ( /\ vals.gender = ""
             /\ vals.age \in MIN_AGE..MAX_AGE
             /\ "" \notin {vals.species, vals.setting, vals.acquisition, vals.bsi_source} )
           => errors = << "Gender is required" >>

C6_Witness ==
    /\ pc = "done"
    /\ trigger = "submit"
    /\ vals = [ FilledForm EXCEPT !.gender = "" ]
    /\ errors = << "Gender is required" >>
    /\ io.append = << >>
    /\ Len(store) > 1

\* The fields of v that break a rule of the validator.
Violated(v) ==
    (IF v.age < 0 \/ v.age > 120 THEN {"age"} ELSE {})
    \cup { f \in {"gender", "species", "setting", "acquisition", "bsi_source"} : v[f] = "" }

\* The message that names a field.
MessageOf(f) ==
    CASE f = "age"         -> "Age must be between 0 and 120"
      [] f = "gender"      -> "Gender is required"
      [] f = "species"     -> "Species is required"
      [] f = "setting"     -> "Clinical setting is required"
      [] f = "acquisition" -> "Acquisition type is required"
      [] f = "bsi_source"  -> "BSI source is required"

\* C7: the validator returns no violation for an age in [0,120] with every
\* selectbox filled, and otherwise one violation per violated field, each
\* naming its field.
C7_ValidatorRules ==
    pc = "validated" =>
        /\ Violated(vals) = {} <=> errors = << >>
        /\ Len(errors) = Cardinality(Violated(vals))
        /\ Range(errors) = { MessageOf(f) : f \in Violated(vals) }

C7_Witness ==
    /\ pc = "validated"
    /\ vals.age = 121
    /\ vals.species = ""
    /\ vals.gender # ""
    /\ Len(errors) = 2

\* The encoded row, column by column.
C8_Columns ==
    (pc \in {"append", "verify"}) =>
        /\ Len(data) = 17
        /\ data[1] = vals.age
        /\ data[2] = vals.gender
        /\ data[3] = vals.species
        /\ data[4] = (IF vals.rectal_cpe_pos = "Yes" THEN 1 ELSE 0)
        /\ data[5] = vals.setting
        /\ data[6] = vals.acquisition
        /\ data[7] = vals.bsi_source
        /\ data[8] = (IF vals.chf = "Yes" THEN 1 ELSE 0)
        /\ data[9] = (IF vals.ckd = "Yes" THEN 1 ELSE 0)
        /\ data[10] = (IF vals.tumor = "Yes" THEN 1 ELSE 0)
        /\ data[11] = (IF vals.diabetes = "Yes" THEN 1 ELSE 0)
        /\ data[12] = (IF vals.immunosuppressed = "Yes" THEN 1 ELSE 0)
        /\ data[13] = (IF vals.cr = "Yes" THEN 1 ELSE 0)
        /\ data[14] = (IF vals.blbli_r = "Yes" THEN 1 ELSE 0)
        /\ data[15] = (IF vals.fqr = "Yes" THEN 1 ELSE 0)
        /\ data[16] = (IF vals.three_gc_r = "Yes" THEN 1 ELSE 0)

\* The timestamp is the clock of the encoding step, no append call has been
\* issued by then, and neither the wait for the append nor the append changes
\* the row: the row stored carries the encoding time.
C8_StampedAtEncoding ==
    /\ (pc = "form" /\ pc' = "append") =>
          (data'[17] = Strftime(clock) /\ io'.append = << >>)
    /\ pc = "append" => data' = data
    /\ (pc = "append" /\ pc' = "verify") =>
          (Len(store') = Len(store) + 1 /\ Last(store')[17] = data[17])

\* C8: the encoded row has the 17 entries in the fixed order, Yes/No as 1/0,
\* the scalar fields unchanged, and the timestamp read once, at encoding,
\* before the append is attempted.
C8_EncodedRow == []C8_Columns /\ [][C8_StampedAtEncoding]_vars

C8_Witness ==
    /\ pc = "verify"
    /\ clock > 0
    /\ data[17] = Strftime(0)
    /\ Last(store)[17] = Strftime(0)
    /\ vals.chf = "Yes"
    /\ vals.ckd = "No"
    /\ vals.immunosuppressed = "No"
    /\ vals.age = MAX_AGE

\* The step of main that loads the dataset.
C9_LoadStep ==
    (pc = "display" /\ pc' = "done") =>
        /\ records' = dataCache'.value
        /\ clock - dataCache'.at <= DATA_TTL
        /\ dataCache.has => (io'.fetch = io.fetch /\ dataCache' = dataCache)
        /\ ~dataCache.has => (Len(io'.fetch) = Len(io.fetch) + 1 /\ dataCache'.at = clock)

\* What may happen to the cached copy in one step: it stays, the refresh
\* button or its age discards it, or a load that found no copy stores one.
C9_CacheStep ==
    /\ (pc = "display" /\ trigger = "refresh" /\ pc' # pc) => ~dataCache'.has
    /\ (dataCache.has /\ ~dataCache'.has) =>
          \/ pc = "display" /\ trigger = "refresh" /\ pc' # pc
          \/ clock' - dataCache.at >= DATA_TTL
    /\ (dataCache.has /\ dataCache'.has) => dataCache' = dataCache
    /\ (~dataCache.has /\ dataCache'.has) =>
          (pc = "display" /\ pc' = "done" /\ dataCache'.at = clock)

\* C9: the cached copy is discarded only by its age (5 minutes) or by the
\* refresh button; after either the next load fetches; a load never serves a
\* copy older than 5 minutes, and a load that finds a fresh copy issues no
\* fetch.
C9_CacheInvalidation ==
    /\ [](dataCache.has => clock - dataCache.at < DATA_TTL)
    /\ [][C9_LoadStep]_vars
    /\ [][C9_CacheStep]_vars

C9_Witness ==
    /\ pc = "done"
    /\ sheet
    /\ io.fetch = << >>
    /\ records = dataCache.value
    /\ clock > dataCache.at
    /\ Len(store) > Len(records) + 1

\* C10: connect_to_gsheet makes at most 3 attempts; every attempt but the last
\* ended with an API error and was followed by a wait of 2^attempt seconds; a
\* not-found or other error ends it at once; a third API error ends it; and a
\* run without a connection renders no form and issues no append or read.
C10_ConnectRetries ==
    /\ Len(io.connect) <= max_retries
    /\ \A i \in 1..(Len(io.connect) - 1) : io.connect[i] = "api"
    /\ \A i \in 1..Len(waits) : waits[i] = 2 ^ (i - 1)
    /\ pc = "connect" =>
          /\ Len(waits) = Len(io.connect)
          /\ attempt = Len(io.connect)
          /\ \A i \in 1..Len(io.connect) : io.connect[i] = "api"
    /\ (pc # "connect" /\ io.connect # << >>) =>
          /\ Len(waits) = Len(io.connect) - 1
          /\ sheet <=> Last(io.connect) = "ok"
          /\ Last(io.connect) = "api" => Len(io.connect) = max_retries
    /\ outcome = "noconn" =>
          /\ pc = "done"
          /\ ~formRendered
          /\ io.append = << >> /\ io.values = << >> /\ io.fetch = << >>

C10_Witness ==
    /\ outcome = "noconn"
    /\ io.connect = << "api", "api", "api" >>
    /\ waits = << 1, 2 >>
    /\ session.submitted

====
